---- MODULE Spec2Model ----
(***************************************************************************)
(* Model of the ZeeXClub stream subsystem: the stream token registry       *)
(* (bot/utils.py, database/supabase_client.py), the Django stream view     *)
(* (api/views.py), the FastAPI stream routes (api/routes.py) and the       *)
(* Pyrogram stream handler (services/stream_handler.py).                   *)
(***************************************************************************)
EXTENDS Integers, Sequences, FiniteSets, TLC

(***************************************************************************)
(* Bounds of the model.                                                    *)
(***************************************************************************)
MaxLen == 4          \* byte length of the largest upstream file
ChunkSize == 2       \* bytes per streamed chunk (scaled-down chunk size)
NumCreators == 2     \* concurrent callers of get_or_create

(***************************************************************************)
(* Characters, digits and small helpers.                                   *)
(***************************************************************************)
Digits == {"0", "1", "2", "3", "4", "5", "6", "7", "8", "9"}

HexChars == Digits \cup {"a", "b", "c", "d", "e", "f"}

LowerChars ==
  {"a", "b", "c", "d", "e", "f", "g", "h", "i", "j", "k", "l", "m",
   "n", "o", "p", "q", "r", "s", "t", "u", "v", "w", "x", "y", "z"}

UpperChars ==
  {"A", "B", "C", "D", "E", "F", "G", "H", "I", "J", "K", "L", "M",
   "N", "O", "P", "Q", "R", "S", "T", "U", "V", "W", "X", "Y", "Z"}

UrlSafeChars == LowerChars \cup UpperChars \cup Digits \cup {"_", "-"}

DigitChar(d) ==
  CASE d = 0 -> "0" [] d = 1 -> "1" [] d = 2 -> "2" [] d = 3 -> "3"
    [] d = 4 -> "4" [] d = 5 -> "5" [] d = 6 -> "6" [] d = 7 -> "7"
    [] d = 8 -> "8" [] d = 9 -> "9"

DigitVal(c) == CHOOSE d \in 0..9 : DigitChar(d) = c

Min(a, b) == IF a <= b THEN a ELSE b

\* str(n) for n >= 0: the decimal digits of n
RECURSIVE ToDigits(_)
ToDigits(n) ==
  IF n < 10 THEN <<DigitChar(n)>>
  ELSE Append(ToDigits(n \div 10), DigitChar(n % 10))

\* int(s) for a non-empty string of decimal digits
RECURSIVE PyInt(_)
PyInt(s) ==
  IF Len(s) = 1 THEN DigitVal(s[1])
  ELSE 10 * PyInt(SubSeq(s, 1, Len(s) - 1)) + DigitVal(s[Len(s)])

\* length of the longest run of digits of s that starts at index i
RECURSIVE DigitRun(_, _)
DigitRun(s, i) ==
  IF i > Len(s) \/ s[i] \notin Digits THEN 0 ELSE 1 + DigitRun(s, i + 1)

AllIn(s, chars) == \A i \in 1..Len(s) : s[i] \in chars

(***************************************************************************)
(* Provider file ids, the upstream files and the stream tokens.            *)
(***************************************************************************)
F1 == <<"B", "A", "A", "C", "1">>
F2 == <<"B", "A", "A", "C", "2">>

FileIds == {F1, F2}

\* the bytes Telegram holds for each provider file id
TelegramFiles ==
  [f \in FileIds |->
     IF f = F1 THEN [i \in 1..MaxLen |-> 10 + i] ELSE <<21, 22>>]

\* hashlib.md5(file_id.encode('utf-8')).hexdigest()
Md5Hex(file_id) ==
  IF file_id = F1
  THEN <<"4", "1", "1", "6", "6", "6", "6", "2", "a", "8", "8", "0", "7",
         "f", "6", "1", "1", "9", "9", "e", "8", "d", "2", "8", "3", "8",
         "f", "5", "d", "d", "0", "2">>
  ELSE IF file_id = <<>>
  THEN <<"d", "4", "1", "d", "8", "c", "d", "9", "8", "f", "0", "0", "b",
         "2", "0", "4", "e", "9", "8", "0", "0", "9", "9", "8", "e", "c",
         "f", "8", "4", "2", "7", "e">>
  ELSE <<"0", "6", "9", "c", "5", "2", "7", "3", "1", "a", "7", "b", "9",
         "c", "8", "2", "8", "6", "a", "5", "a", "a", "e", "c", "5", "4",
         "0", "6", "a", "f", "d", "4">>

generate_stream_id(file_id) == Md5Hex(file_id)

\* file ids a caller of get_or_create can pass: the known ones and the empty one
CallerFileIds == FileIds \cup {<<>>}

(***************************************************************************)
(* Stream token registry: the stream_mappings table, a list of rows.       *)
(***************************************************************************)
Row(unique_id, file_id) == [unique_id |-> unique_id, file_id |-> file_id]

RowsOf(reg, unique_id) ==
  {i \in 1..Len(reg) : reg[i].unique_id = unique_id}

\* the select without its eq('unique_id', ...) filter
get_stream_mapping_NoFilter(reg, unique_id) ==
  IF Len(reg) = 0 THEN <<>> ELSE <<reg[1]>>

\* select('*').eq('unique_id', unique_id).limit(1): <<row>> or <<>> (None)
get_stream_mapping(reg, unique_id) ==
  IF RowsOf(reg, unique_id) = {} THEN <<>>
  ELSE <<reg[CHOOSE i \in RowsOf(reg, unique_id) :
               \A j \in RowsOf(reg, unique_id) : i <= j]>>

\* token format check of the stream view: a 32 character hex digest
validate_stream_token(stream_id) ==
  Len(stream_id) = 32 /\ AllIn(stream_id, HexChars)

\* registry lookup of the stream view: <<file_id>> or <<>> (None)
get_file_id_from_stream_id(reg, stream_id) ==
  IF get_stream_mapping(reg, stream_id) = <<>> THEN <<>>
  ELSE <<get_stream_mapping(reg, stream_id)[1].file_id>>

(***************************************************************************)
(* Range header: re.match of bytes=<digits>-<optional digits>, a prefix    *)
(* match: whatever follows the second digit run is ignored.                *)
(***************************************************************************)
BytesEq == <<"b", "y", "t", "e", "s", "=">>

NoMatch == [matched |-> FALSE, g1 |-> <<>>, g2 |-> <<>>, last |-> 0]

\* groups 1 and 2 of the match, and the index of the last matched character
RangeMatch(h) ==
  IF Len(h) < 6 \/ SubSeq(h, 1, 6) # BytesEq THEN NoMatch
  ELSE LET n1 == DigitRun(h, 7) IN
    IF n1 = 0 \/ 7 + n1 > Len(h) \/ h[7 + n1] # "-" THEN NoMatch
    ELSE LET n2 == DigitRun(h, 8 + n1) IN
      [matched |-> TRUE,
       g1 |-> SubSeq(h, 7, 6 + n1),
       g2 |-> SubSeq(h, 8 + n1, 7 + n1 + n2),
       last |-> 7 + n1 + n2]

\* the header text "bytes=<s>-<e>"; e is <<>> (open ended) or <<end>>
FormatRange(s, e) ==
  BytesEq \o ToDigits(s) \o <<"-">> \o (IF e = <<>> THEN <<>> ELSE ToDigits(e[1]))

MultiSuffix == <<",", "7", "-", "8">>

RangeStarts == (0..MaxLen) \cup {12}

RangeEnds == {<<>>} \cup {<<e>> : e \in 0..(MaxLen + 1)}

\* Range header values a client sends; <<>> is "no Range header"
RangeHeaders ==
  {<<>>, <<"b", "y", "t", "e", "s", "=", "-", "2">>, <<"i", "t", "e", "m", "s", "=", "0", "-", "1">>}
  \cup {FormatRange(s, e) : s \in RangeStarts, e \in RangeEnds}
  \cup {FormatRange(s, e) \o MultiSuffix : s \in {0, 1}, e \in {<<1>>, <<2>>}}

(***************************************************************************)
(* Django view, _handle_range_request: parse and validate the range.       *)
(* status 400: no match, 416: start >= file_size, 206: go on to the fetch. *)
(***************************************************************************)
RangePlan_NoClamp(range_header, file_size) ==
  LET m == RangeMatch(range_header) IN
  IF ~m.matched THEN [status |-> 400, start |-> 0, end |-> 0, length |-> 0]
  ELSE LET start == PyInt(m.g1)
           end == IF m.g2 # <<>> THEN PyInt(m.g2) ELSE file_size - 1
       IN IF start >= file_size
          THEN [status |-> 416, start |-> start, end |-> end, length |-> 0]
          ELSE [status |-> 206, start |-> start, end |-> end,
                length |-> end - start + 1]

RangePlan(range_header, file_size) ==
  LET m == RangeMatch(range_header) IN
  IF ~m.matched THEN [status |-> 400, start |-> 0, end |-> 0, length |-> 0]
  ELSE LET start == PyInt(m.g1)
           end0 == IF m.g2 # <<>> THEN PyInt(m.g2) ELSE file_size - 1
       IN IF start >= file_size
          THEN [status |-> 416, start |-> start, end |-> end0, length |-> 0]
          ELSE LET end == Min(end0, file_size - 1)
               IN [status |-> 206, start |-> start, end |-> end,
                   length |-> end - start + 1]

(***************************************************************************)
(* FastAPI route, stream_telegram_file: start, end, Content-Length, status *)
(***************************************************************************)
RoutePlan(range, file_size) ==
  LET m == RangeMatch(range)
      start == IF range # <<>> /\ m.matched THEN PyInt(m.g1) ELSE 0
      end == IF range # <<>> /\ m.matched /\ m.g2 # <<>>
             THEN PyInt(m.g2) ELSE file_size - 1
  IN [status |-> IF range # <<>> THEN 206 ELSE 200,
      start |-> start, end |-> end, length |-> end - start + 1]

\* re.match(r'^[A-Za-z0-9_-]+$', file_id); $ also matches before a final \n
RouteIdMatch(file_id) ==
  LET n == IF Len(file_id) > 0 /\ file_id[Len(file_id)] = "\n"
           THEN Len(file_id) - 1 ELSE Len(file_id)
  IN n >= 1 /\ AllIn(SubSeq(file_id, 1, n), UrlSafeChars)

(***************************************************************************)
(* StreamHandler.stream_file: one turn of the read loop over the BytesIO.  *)
(***************************************************************************)
\* chunk[:r] of Python, r may be negative
PyPrefix(chunk, r) ==
  IF r >= 0 THEN SubSeq(chunk, 1, Min(r, Len(chunk)))
  ELSE IF Len(chunk) + r > 0 THEN SubSeq(chunk, 1, Len(chunk) + r) ELSE <<>>

\* buf: the downloaded file, fpos: file pointer, cur: current_pos, end: int
\* result: the chunk yielded (if any), the new positions, whether the loop ended
StreamFileTurn(buf, fpos, cur, end) ==
  LET chunk == IF fpos >= Len(buf) THEN <<>>
               ELSE SubSeq(buf, fpos + 1, Min(fpos + ChunkSize, Len(buf)))
  IN IF chunk = <<>>
     THEN [yielded |-> FALSE, chunk |-> <<>>, fpos |-> fpos, cur |-> cur, done |-> TRUE]
     ELSE IF end # 0 /\ cur + Len(chunk) > end
     THEN [yielded |-> TRUE, chunk |-> PyPrefix(chunk, end - cur + 1),
           fpos |-> fpos + Len(chunk), cur |-> cur, done |-> TRUE]
     ELSE [yielded |-> TRUE, chunk |-> chunk,
           fpos |-> fpos + Len(chunk), cur |-> cur + Len(chunk), done |-> FALSE]

(***************************************************************************)
(* State.                                                                  *)
(***************************************************************************)
VARIABLES
  registry,   \* rows of the stream_mappings table
  botSet,     \* StreamHandler.bot is not None
  pc,         \* position of the HTTP request being served
  req,        \* the request: endpoint, method, token and Range header
  loc,        \* what the file resolver returned for this request
  plan,       \* start, end and length computed from the Range header
  resp,       \* status, headers and body sent to the client so far
  up,         \* the upstream transfer of this request
  calls,      \* calls made while serving this request
  cpc,        \* position of each caller of get_or_create
  cfile,      \* provider file id each caller passes
  ctoken,     \* unique_id each caller computed
  cresult,    \* row each caller got back, <<>> when none
  resolved,   \* the last get_stream_mapping call: its unique_id and its answer
  sessions,   \* SessionManager.sessions: <<session>> per user id, <<>> when absent
  now,        \* time.time() as the SessionManager sees it
  lastCleanup, \* SessionManager._last_cleanup
  born,       \* when the session a user holds was created by set
  sret,       \* the SessionManager call made at this instant and what it returned
  requests,   \* SimpleRateLimiter.requests: the (timestamp, count) entries per ip
  clock,      \* time.time() as the rate limiter sees it
  lret,       \* the is_allowed call made at this instant and its answer
  allowedLog, \* per ip, the times of all is_allowed calls answered True
  retry,      \* one call of a function wrapped by retry_on_error
  user_sessions, \* commands.user_sessions: the upload conversation of each user
  ulast       \* the update the bot handled last: who sent it and what it was

streamVars == <<botSet, pc, req, loc, plan, resp, up, calls>>

creatorVars == <<cpc, cfile, ctoken, cresult, resolved>>

sessionVars == <<sessions, now, lastCleanup, born, sret>>

limiterVars == <<requests, clock, lret, allowedLog>>

retryVars == <<retry>>

uploadVars == <<user_sessions, ulast>>

utilVars == <<sessionVars, limiterVars, retryVars, uploadVars>>

vars == <<registry, botSet, pc, req, loc, plan, resp, up, calls,
          cpc, cfile, ctoken, cresult, resolved, utilVars>>

Creators == 1..NumCreators

NoReq == [endpoint |-> "none", method |-> "none", token |-> <<>>, range |-> <<>>]

\* answer is the kind of answer getFile gave, "" before the call
NoLoc ==
  [file_id |-> <<>>, file_size |-> 0, mime_type |-> "", download_url |-> <<>>,
   answer |-> ""]

NoPlan == [ranged |-> FALSE, start |-> 0, end |-> 0, length |-> 0]

\* content_length and content_range are <<>> when the header is not set
NoResp ==
  [status |-> 0, content_type |-> "", content_length |-> <<>>,
   content_range |-> <<>>, accept_ranges |-> "", error |-> "", body |-> <<>>]

\* url is the download url the GET was sent to, <<>> before the GET
NoUp ==
  [open |-> FALSE, sent_range |-> <<>>, status |-> 0, body |-> <<>>,
   buf |-> <<>>, fpos |-> 0, cur |-> 0, url |-> <<>>]

NoCalls == [lookup |-> 0, getFile |-> 0, fileInfo |-> 0, fetch |-> 0]

ErrorResponse(status, error) ==
  [NoResp EXCEPT !.status = status, !.error = error,
                 !.content_type = "application/json"]

NoResolved == [called |-> FALSE, unique_id |-> <<>>, result |-> <<>>]

Terminal == {"Responded", "Completed", "StreamAborted", "ClientDisconnected"}

(***************************************************************************)
(* Requests a client can send.                                             *)
(***************************************************************************)
ShortToken == <<"a", "b", "c">>

\* 32 characters, one of them outside the hex alphabet
BadCharToken == <<"z">> \o SubSeq(Md5Hex(F1), 2, 32)

\* unique_ids the callers of the table use
MappingIds == {Md5Hex(f) : f \in FileIds}

DjangoTokens == {Md5Hex(f) : f \in FileIds} \cup {ShortToken, BadCharToken}

RouteIds == {F1, <<"a", "$">>, F2 \o <<"\n">>}

\* tables the registry can hold when a request arrives
Registries ==
  {<<>>, <<Row(Md5Hex(F1), F1)>>, <<Row(Md5Hex(F1), F1), Row(Md5Hex(F2), F2)>>}

ReceiveRequest ==
  /\ pc = "Idle"
  /\ \/ \E t \in DjangoTokens, r \in RangeHeaders :
          req' = [endpoint |-> "django", method |-> "GET", token |-> t, range |-> r]
     \/ \E t \in DjangoTokens :
          req' = [endpoint |-> "django", method |-> "HEAD", token |-> t, range |-> <<>>]
     \/ \E t \in RouteIds, r \in RangeHeaders :
          req' = [endpoint |-> "fastapi", method |-> "GET", token |-> t, range |-> r]
     \/ \E t \in RouteIds :
          req' = [endpoint |-> "fastapi", method |-> "HEAD", token |-> t, range |-> <<>>]
  /\ pc' = "Received"
  /\ UNCHANGED <<registry, botSet, loc, plan, resp, up, calls, creatorVars, utilVars>>

\* the locals of the request kept for the next one
NextRequest_KeepsLocals ==
  /\ pc \in Terminal
  /\ pc' = "Idle"
  /\ req' = NoReq /\ resp' = NoResp
  /\ UNCHANGED <<registry, botSet, loc, plan, up, calls, creatorVars, utilVars>>

\* the request is over and its locals are gone; the server waits for the next
NextRequest ==
  /\ pc \in Terminal
  /\ pc' = "Idle"
  /\ req' = NoReq /\ loc' = NoLoc /\ plan' = NoPlan /\ resp' = NoResp
  /\ up' = NoUp /\ calls' = NoCalls
  /\ UNCHANGED <<registry, botSet, creatorVars, utilVars>>

(***************************************************************************)
(* Telegram, as the Django view sees it.                                   *)
(***************************************************************************)
\* answers of the Bot API to getFile
GetFileOutcomes(file_id) ==
  {[kind |-> "ok", file_size |-> Len(TelegramFiles[file_id])],
   [kind |-> "ok", file_size |-> 0],
   [kind |-> "not_ok", file_size |-> 0],
   [kind |-> "http4xx", file_size |-> 0],
   [kind |-> "http5xx", file_size |-> 0],
   [kind |-> "timeout", file_size |-> 0]}

\* answers of the file endpoint to a GET; sent_range is <<>> or <<[start, end]>>
FetchOutcomes(file_id, sent_range) ==
  LET bytes == TelegramFiles[file_id]
      n == Len(bytes)
  IN {[kind |-> "http", status |-> 200, body |-> bytes, content_length |-> cl] :
        cl \in {<<n>>, <<>>}}
     \cup (IF sent_range # <<>> /\ sent_range[1].start <= sent_range[1].end
              /\ sent_range[1].start < n
           THEN {[kind |-> "http", status |-> 206,
                  body |-> SubSeq(bytes, sent_range[1].start + 1,
                                  Min(sent_range[1].end, n - 1) + 1),
                  content_length |->
                    <<Min(sent_range[1].end, n - 1) - sent_range[1].start + 1>>]}
           ELSE {})
     \cup {[kind |-> "http", status |-> st, body |-> <<>>, content_length |-> <<0>>] :
             st \in {404, 500}}
     \cup {[kind |-> "exception", status |-> 0, body |-> <<>>, content_length |-> <<>>]}

(***************************************************************************)
(* Django: StreamVideoView.get and its helpers, one step per call.         *)
(***************************************************************************)
\* get: the format check of the token
DjangoValidate ==
  /\ pc = "Received" /\ req.endpoint = "django"
  /\ IF ~validate_stream_token(req.token)
     THEN /\ resp' = ErrorResponse(400, "Invalid stream ID format")
          /\ pc' = "Responded"
     ELSE /\ pc' = "Validated"
          /\ UNCHANGED resp
  /\ UNCHANGED <<registry, botSet, req, loc, plan, up, calls, creatorVars, utilVars>>

\* get: the registry lookup, Http404 when there is no row, then the video row
DjangoLookup ==
  /\ pc = "Validated" /\ req.endpoint = "django"
  /\ calls' = [calls EXCEPT !.lookup = @ + 1]
  /\ LET found == get_file_id_from_stream_id(registry, req.token) IN
     IF found = <<>>
     THEN /\ resp' = ErrorResponse(404, "Stream not found")
          /\ pc' = "Responded"
          /\ UNCHANGED loc
     ELSE /\ \E mime \in {"video/mp4", "video/x-matroska"} :
               loc' = [NoLoc EXCEPT !.file_id = found[1], !.mime_type = mime]
          /\ pc' = "TokenResolved"
          /\ UNCHANGED resp
  /\ UNCHANGED <<registry, botSet, req, plan, up, creatorVars, utilVars>>

\* _stream_from_telegram: the getFile call and the download url
DjangoGetFile ==
  /\ pc = "TokenResolved" /\ req.endpoint = "django"
  /\ calls' = [calls EXCEPT !.getFile = @ + 1]
  /\ \E o \in GetFileOutcomes(loc.file_id) :
       CASE o.kind = "ok" ->
              /\ loc' = [loc EXCEPT !.file_size = o.file_size,
                                    !.download_url = loc.file_id,
                                    !.answer = o.kind]
              /\ pc' = "LocationResolved"
              /\ UNCHANGED resp
         [] o.kind \in {"http4xx", "http5xx"} ->
              /\ resp' = ErrorResponse(404, "Cannot access file")
              /\ pc' = "Responded"
              /\ loc' = [loc EXCEPT !.answer = o.kind]
         [] o.kind = "not_ok" ->
              /\ resp' = ErrorResponse(404, "File not found on Telegram")
              /\ pc' = "Responded"
              /\ loc' = [loc EXCEPT !.answer = o.kind]
         [] o.kind = "timeout" ->
              /\ resp' = ErrorResponse(500, "Stream failed")
              /\ pc' = "Responded"
              /\ loc' = [loc EXCEPT !.answer = o.kind]
  /\ UNCHANGED <<registry, botSet, req, plan, up, creatorVars, utilVars>>

\* the GET on the download url sent before the Range header is checked
DjangoPlan_FetchFirst ==
  /\ pc = "LocationResolved" /\ req.endpoint = "django"
  /\ calls' = [calls EXCEPT !.fetch = @ + 1]
  /\ up' = [up EXCEPT !.open = TRUE, !.url = loc.download_url]
  /\ IF req.range # <<>>
     THEN LET p == RangePlan(req.range, loc.file_size) IN
          IF p.status = 400
          THEN /\ resp' = ErrorResponse(400, "Invalid Range header")
               /\ pc' = "Responded"
               /\ UNCHANGED plan
          ELSE IF p.status = 416
          THEN /\ resp' = ErrorResponse(416, "Range not satisfiable")
               /\ pc' = "Responded"
               /\ UNCHANGED plan
          ELSE /\ plan' = [ranged |-> TRUE, start |-> p.start, end |-> p.end,
                           length |-> p.length]
               /\ pc' = "RangePlanned"
               /\ UNCHANGED resp
     ELSE /\ plan' = NoPlan
          /\ pc' = "RangePlanned"
          /\ UNCHANGED resp
  /\ UNCHANGED <<registry, botSet, req, loc, creatorVars, utilVars>>

\* _stream_from_telegram / _handle_range_request: the Range header is read,
\* parsed and checked against file_size
DjangoPlan ==
  /\ pc = "LocationResolved" /\ req.endpoint = "django"
  /\ IF req.range # <<>>
     THEN LET p == RangePlan(req.range, loc.file_size) IN
          IF p.status = 400
          THEN /\ resp' = ErrorResponse(400, "Invalid Range header")
               /\ pc' = "Responded"
               /\ UNCHANGED plan
          ELSE IF p.status = 416
          THEN /\ resp' = ErrorResponse(416, "Range not satisfiable")
               /\ pc' = "Responded"
               /\ UNCHANGED plan
          ELSE /\ plan' = [ranged |-> TRUE, start |-> p.start, end |-> p.end,
                           length |-> p.length]
               /\ pc' = "RangePlanned"
               /\ UNCHANGED resp
     ELSE /\ plan' = NoPlan
          /\ pc' = "RangePlanned"
          /\ UNCHANGED resp
  /\ UNCHANGED <<registry, botSet, req, loc, up, calls, creatorVars, utilVars>>

\* _handle_range_request / _stream_full_file: the GET on the download url and
\* the StreamingHttpResponse built from its answer. The view has no head
\* method, so a HEAD request runs get as well; its response goes out without
\* the body and the upstream answer is left unread.
DjangoFetch ==
  /\ pc = "RangePlanned" /\ req.endpoint = "django"
  /\ calls' = [calls EXCEPT !.fetch = @ + 1]
  /\ LET sent == IF plan.ranged
                 THEN <<[start |-> plan.start, end |-> plan.end]>> ELSE <<>>
     IN \E o \in FetchOutcomes(loc.file_id, sent) :
          IF o.kind = "exception"
          THEN /\ resp' = ErrorResponse(500, IF plan.ranged THEN "Range request failed"
                                                          ELSE "Stream failed")
               /\ pc' = "Responded"
               /\ up' = [up EXCEPT !.sent_range = sent, !.url = loc.download_url]
          ELSE IF (plan.ranged /\ o.status \notin {200, 206})
                  \/ (~plan.ranged /\ o.status # 200)
          THEN /\ resp' = ErrorResponse(502, "Source unavailable")
               /\ pc' = "Responded"
               /\ up' = [up EXCEPT !.sent_range = sent, !.status = o.status,
                                   !.open = TRUE, !.url = loc.download_url]
          ELSE /\ resp' =
                    IF plan.ranged
                    THEN [NoResp EXCEPT
                            !.status = 206,
                            !.content_type = loc.mime_type,
                            !.content_range = <<[start |-> plan.start, end |-> plan.end,
                                                 total |-> loc.file_size]>>,
                            !.content_length = <<plan.length>>,
                            !.accept_ranges = "bytes"]
                    ELSE [NoResp EXCEPT
                            !.status = 200,
                            !.content_type = loc.mime_type,
                            !.content_length = IF loc.file_size # 0
                                               THEN <<loc.file_size>>
                                               ELSE o.content_length,
                            !.accept_ranges = "bytes"]
               /\ pc' = IF req.method = "HEAD" THEN "Completed" ELSE "Streaming"
               /\ up' = [up EXCEPT !.sent_range = sent, !.status = o.status,
                                   !.open = TRUE, !.body = o.body,
                                   !.url = loc.download_url]
  /\ UNCHANGED <<registry, botSet, req, loc, plan, creatorVars, utilVars>>

\* iter_content(chunk_size): the next chunk of the upstream body, or its end
DjangoStreamChunk ==
  /\ pc = "Streaming" /\ req.endpoint = "django"
  /\ IF up.body = <<>>
     THEN /\ pc' = "Completed"
          /\ up' = [up EXCEPT !.open = FALSE]
          /\ UNCHANGED resp
     ELSE LET k == Min(ChunkSize, Len(up.body)) IN
          /\ resp' = [resp EXCEPT !.body = @ \o SubSeq(up.body, 1, k)]
          /\ up' = [up EXCEPT !.body = SubSeq(@, k + 1, Len(@))]
          /\ UNCHANGED pc
  /\ UNCHANGED <<registry, botSet, req, loc, plan, calls, creatorVars, utilVars>>

\* the broken transfer answered with an error status
UpstreamDrop_ErrorStatus ==
  /\ pc = "Streaming" /\ req.endpoint = "django"
  /\ up.body # <<>>
  /\ pc' = "StreamAborted"
  /\ up' = [up EXCEPT !.open = FALSE, !.body = <<>>]
  /\ resp' = [ErrorResponse(502, "Source unavailable") EXCEPT !.body = resp.body]
  /\ UNCHANGED <<registry, botSet, req, loc, plan, calls, creatorVars, utilVars>>

\* the upstream connection breaks while the body is being relayed
UpstreamDrop ==
  /\ pc = "Streaming" /\ req.endpoint = "django"
  /\ up.body # <<>>
  /\ pc' = "StreamAborted"
  /\ up' = [up EXCEPT !.open = FALSE, !.body = <<>>]
  /\ UNCHANGED <<registry, botSet, req, loc, plan, resp, calls, creatorVars, utilVars>>

\* the client goes away while the body is being sent. The response iterator
\* is dropped; nothing in the view closes telegram_response, so its
\* connection is closed only if the interpreter finalizes the dropped object.
ClientDisconnect ==
  /\ pc = "Streaming"
  /\ pc' = "ClientDisconnected"
  /\ \E finalized \in BOOLEAN :
       up' = [up EXCEPT !.open = @ /\ ~finalized]
  /\ UNCHANGED <<registry, botSet, req, loc, plan, resp, calls, creatorVars, utilVars>>

(***************************************************************************)
(* FastAPI: stream_telegram_file, stream_telegram_file_head, StreamHandler *)
(***************************************************************************)
\* StreamHandler.set_bot
SetBot ==
  /\ ~botSet
  /\ botSet' = TRUE
  /\ UNCHANGED <<registry, pc, req, loc, plan, resp, up, calls, creatorVars, utilVars>>

\* StreamHandler.get_file_info: <<info>> or <<>> (None) without a bot
get_file_info(bot, file_id) ==
  IF ~bot THEN <<>>
  ELSE <<[file_id |-> file_id, file_size |-> 0, mime_type |-> "video/mp4"]>>

\* stream_telegram_file: the charset check of the file id
FastApiValidate ==
  /\ pc = "Received" /\ req.endpoint = "fastapi" /\ req.method = "GET"
  /\ IF ~RouteIdMatch(req.token)
     THEN /\ resp' = ErrorResponse(400, "File ID invalide")
          /\ pc' = "Responded"
     ELSE /\ pc' = "Validated"
          /\ UNCHANGED resp
  /\ UNCHANGED <<registry, botSet, req, loc, plan, up, calls, creatorVars, utilVars>>

\* stream_telegram_file: get_file_info, 404 when it returns None
FastApiGetFileInfo ==
  /\ pc = "Validated" /\ req.endpoint = "fastapi"
  /\ calls' = [calls EXCEPT !.fileInfo = @ + 1]
  /\ LET info == get_file_info(botSet, req.token) IN
     IF info = <<>>
     THEN /\ resp' = ErrorResponse(404, "Fichier non trouve sur Telegram")
          /\ pc' = "Responded"
          /\ UNCHANGED loc
     ELSE /\ loc' = [NoLoc EXCEPT !.file_id = info[1].file_id,
                                  !.file_size = info[1].file_size,
                                  !.mime_type = info[1].mime_type]
          /\ pc' = "LocationResolved"
          /\ UNCHANGED resp
  /\ UNCHANGED <<registry, botSet, req, plan, up, creatorVars, utilVars>>

\* stream_telegram_file: start, end, the headers and the status of the
\* StreamingResponse
FastApiPlan ==
  /\ pc = "LocationResolved" /\ req.endpoint = "fastapi"
  /\ LET p == RoutePlan(req.range, loc.file_size) IN
     /\ plan' = [ranged |-> req.range # <<>>, start |-> p.start, end |-> p.end,
                 length |-> p.length]
     /\ resp' = [NoResp EXCEPT
                   !.status = p.status,
                   !.content_type = loc.mime_type,
                   !.accept_ranges = "bytes",
                   !.content_length = <<p.length>>,
                   !.content_range =
                      IF req.range # <<>>
                      THEN <<[start |-> p.start, end |-> p.end,
                              total |-> loc.file_size]>>
                      ELSE <<>>]
  /\ pc' = "RangePlanned"
  /\ UNCHANGED <<registry, botSet, req, loc, up, calls, creatorVars, utilVars>>

\* stream_file: download_media(file_id, in_memory=True) and seek(start); the
\* download raises for an id Telegram does not know
FastApiDownload ==
  /\ pc = "RangePlanned" /\ req.endpoint = "fastapi"
  /\ calls' = [calls EXCEPT !.fetch = @ + 1]
  /\ \/ /\ loc.file_id \in FileIds
        /\ up' = [up EXCEPT !.buf = TelegramFiles[loc.file_id],
                            !.fpos = plan.start, !.cur = plan.start]
        /\ pc' = "Streaming"
     \/ /\ up' = up
        /\ pc' = "StreamAborted"
  /\ UNCHANGED <<registry, botSet, req, loc, plan, resp, creatorVars, utilVars>>

\* stream_file: one turn of the read loop, its chunk goes to the client
FastApiStreamTurn ==
  /\ pc = "Streaming" /\ req.endpoint = "fastapi"
  /\ LET t == StreamFileTurn(up.buf, up.fpos, up.cur, plan.end) IN
     /\ resp' = [resp EXCEPT !.body = IF t.yielded THEN @ \o t.chunk ELSE @]
     /\ up' = [up EXCEPT !.fpos = t.fpos, !.cur = t.cur]
     /\ pc' = IF t.done THEN "Completed" ELSE "Streaming"
  /\ UNCHANGED <<registry, botSet, req, loc, plan, calls, creatorVars, utilVars>>

\* stream_telegram_file_head: the response for a file id
HeadResponse(bot, file_id) ==
  LET info == get_file_info(bot, file_id) IN
  IF info = <<>>
  THEN ErrorResponse(404, "Fichier non trouve")
  ELSE [NoResp EXCEPT
          !.status = 200,
          !.content_type = info[1].mime_type,
          !.accept_ranges = "bytes",
          !.content_length = <<info[1].file_size>>]

\* stream_telegram_file_head
FastApiHead ==
  /\ pc = "Received" /\ req.endpoint = "fastapi" /\ req.method = "HEAD"
  /\ calls' = [calls EXCEPT !.fileInfo = @ + 1]
  /\ resp' = HeadResponse(botSet, req.token)
  /\ pc' = "Responded"
  /\ UNCHANGED <<registry, botSet, req, loc, plan, up, creatorVars, utilVars>>

(***************************************************************************)
(* get_or_create: generate_stream_id, then create_stream_mapping.          *)
(***************************************************************************)
\* generate_stream_id(file_id)
CreatorStart(p) ==
  /\ cpc[p] = "idle"
  /\ \E f \in CallerFileIds :
       /\ cfile' = [cfile EXCEPT ![p] = f]
       /\ ctoken' = [ctoken EXCEPT ![p] = generate_stream_id(f)]
  /\ cpc' = [cpc EXCEPT ![p] = "insert"]
  /\ cresult' = [cresult EXCEPT ![p] = <<>>]
  /\ UNCHANGED <<registry, resolved, streamVars, utilVars>>

\* an upsert in place of the insert
CreateStreamMappingInsert_Upsert(p) ==
  /\ cpc[p] = "insert"
  /\ registry' =
       IF RowsOf(registry, ctoken[p]) = {}
       THEN Append(registry, Row(ctoken[p], cfile[p]))
       ELSE [i \in 1..Len(registry) |->
               IF registry[i].unique_id = ctoken[p]
               THEN Row(ctoken[p], cfile[p]) ELSE registry[i]]
  /\ cresult' = [cresult EXCEPT ![p] = <<Row(ctoken[p], cfile[p])>>]
  /\ cpc' = [cpc EXCEPT ![p] = "done"]
  /\ UNCHANGED <<cfile, ctoken, resolved, streamVars, utilVars>>

\* create_stream_mapping: the insert; the table rejects a second row with the
\* same unique_id and the insert raises
CreateStreamMappingInsert(p) ==
  /\ cpc[p] = "insert"
  /\ IF RowsOf(registry, ctoken[p]) = {}
     THEN /\ registry' = Append(registry, Row(ctoken[p], cfile[p]))
          /\ cresult' = [cresult EXCEPT ![p] = <<Row(ctoken[p], cfile[p])>>]
          /\ cpc' = [cpc EXCEPT ![p] = "done"]
     ELSE /\ cpc' = [cpc EXCEPT ![p] = "conflict"]
          /\ UNCHANGED <<registry, cresult>>
  /\ UNCHANGED <<cfile, ctoken, resolved, streamVars, utilVars>>

CreateStreamMappingExisting_Raise(p) ==
  /\ cpc[p] = "conflict"
  /\ cpc' = [cpc EXCEPT ![p] = "error"]
  /\ UNCHANGED <<registry, cfile, ctoken, cresult, resolved, streamVars, utilVars>>

\* create_stream_mapping: the except branch, the existing row or the error
CreateStreamMappingExisting(p) ==
  /\ cpc[p] = "conflict"
  /\ LET existing == get_stream_mapping(registry, ctoken[p]) IN
     IF existing # <<>>
     THEN /\ cresult' = [cresult EXCEPT ![p] = existing]
          /\ cpc' = [cpc EXCEPT ![p] = "done"]
     ELSE /\ cpc' = [cpc EXCEPT ![p] = "error"]
          /\ UNCHANGED cresult
  /\ UNCHANGED <<registry, cfile, ctoken, resolved, streamVars, utilVars>>

\* create_stream_mapping called with a unique_id and a file_id of the
\* caller's choice
CreateStreamMappingCall(p) ==
  /\ cpc[p] = "idle"
  /\ \E u \in MappingIds, f \in FileIds :
       /\ cfile' = [cfile EXCEPT ![p] = f]
       /\ ctoken' = [ctoken EXCEPT ![p] = u]
  /\ cpc' = [cpc EXCEPT ![p] = "insert"]
  /\ cresult' = [cresult EXCEPT ![p] = <<>>]
  /\ UNCHANGED <<registry, resolved, streamVars, utilVars>>

\* get_stream_mapping called on its own: the lookup of a unique_id
ResolveMapping ==
  /\ \E u \in MappingIds \cup {ShortToken} :
       resolved' = [called |-> TRUE, unique_id |-> u,
                    result |-> get_stream_mapping(registry, u)]
  /\ UNCHANGED <<registry, cpc, cfile, ctoken, cresult, streamVars, utilVars>>

\* the caller has its token and may call again
CreatorReturn(p) ==
  /\ cpc[p] = "done"
  /\ cpc' = [cpc EXCEPT ![p] = "idle"]
  /\ UNCHANGED <<registry, cfile, ctoken, cresult, resolved, streamVars, utilVars>>

(***************************************************************************)
(* SessionManager: the sessions of the bot's users, with their expiry.     *)
(* Time is counted in whole units; the expiry and the cleanup period are   *)
(* scaled down to a few units.                                             *)
(***************************************************************************)
MaxTime == 4

\* expiry_seconds
ExpirySeconds == 2

\* the cleanup runs at most once per this many units of time
CleanupInterval == 2

SessionUsers == {101, 102}

\* modes the handlers store, and one that get_stats has no counter for
SessionModes == {"adding_files", "creating_subfolder", "browsing"}

StatKeys == {"total", "adding_files", "creating_subfolder", "selecting_parent", "other"}

NoStats == [k \in StatKeys |-> 0]

NoRet == [op |-> "none", user |-> 0, result |-> <<>>, stats |-> NoStats]

\* the dict set builds
Session(u, t, mode) ==
  [user_id |-> u, created_at |-> t, last_access |-> t, mode |-> mode]

\* now - session.get('created_at', 0) > self.expiry_seconds
Expired(session, t) == t - session.created_at > ExpirySeconds

\* _cleanup_expired at time t
CleanupExpired(ss, t, last) ==
  IF t - last < CleanupInterval
  THEN [sessions |-> ss, last |-> last]
  ELSE [sessions |-> [u \in SessionUsers |->
                        IF ss[u] # <<>> /\ Expired(ss[u][1], t) THEN <<>> ELSE ss[u]],
        last |-> t]

\* a get that restarts the lifetime of the session it returns
SessionManagerGet_Refresh(ss, t, last, u) ==
  LET c == CleanupExpired(ss, t, last) IN
  IF c.sessions[u] = <<>>
  THEN [sessions |-> c.sessions, last |-> c.last, result |-> <<>>]
  ELSE IF Expired(c.sessions[u][1], t)
  THEN [sessions |-> [c.sessions EXCEPT ![u] = <<>>], last |-> c.last,
        result |-> <<>>]
  ELSE LET x == [c.sessions[u][1] EXCEPT !.last_access = t, !.created_at = t]
       IN [sessions |-> [c.sessions EXCEPT ![u] = <<x>>], last |-> c.last,
           result |-> <<x>>]

\* get(user_id) at time t: the store afterwards and <<session>> or <<>> (None)
SessionManagerGet(ss, t, last, u) ==
  LET c == CleanupExpired(ss, t, last) IN
  IF c.sessions[u] = <<>>
  THEN [sessions |-> c.sessions, last |-> c.last, result |-> <<>>]
  ELSE IF Expired(c.sessions[u][1], t)
  THEN [sessions |-> [c.sessions EXCEPT ![u] = <<>>], last |-> c.last,
        result |-> <<>>]
  ELSE LET x == [c.sessions[u][1] EXCEPT !.last_access = t]
       IN [sessions |-> [c.sessions EXCEPT ![u] = <<x>>], last |-> c.last,
           result |-> <<x>>]

\* the dict get_stats returns for a store
GetStats(ss) ==
  LET held == {u \in SessionUsers : ss[u] # <<>>} IN
  [k \in StatKeys |->
     (IF k = "total" THEN Cardinality(held) ELSE 0)
     + Cardinality({u \in held : ss[u][1].mode = k})
     + (IF k = "other"
        THEN Cardinality({u \in held : ss[u][1].mode \notin StatKeys}) ELSE 0)]

(***************************************************************************)
(* SessionManager: one step per call, and the passing of time.             *)
(***************************************************************************)
nonSessionVars == <<registry, streamVars, creatorVars, limiterVars, retryVars,
                    uploadVars>>

\* time.time() moves on
SessionTick ==
  /\ now < MaxTime
  /\ now' = now + 1
  /\ sret' = NoRet
  /\ UNCHANGED <<sessions, lastCleanup, born, nonSessionVars>>

SessionSet(u, mode) ==
  /\ sessions' = [sessions EXCEPT ![u] = <<Session(u, now, mode)>>]
  /\ born' = [born EXCEPT ![u] = now]
  /\ sret' = [NoRet EXCEPT !.op = "set", !.user = u,
                           !.result = <<Session(u, now, mode)>>]
  /\ UNCHANGED <<now, lastCleanup, nonSessionVars>>

SessionGet(u) ==
  /\ LET g == SessionManagerGet(sessions, now, lastCleanup, u) IN
     /\ sessions' = g.sessions
     /\ lastCleanup' = g.last
     /\ sret' = [NoRet EXCEPT !.op = "get", !.user = u, !.result = g.result]
  /\ UNCHANGED <<now, born, nonSessionVars>>

\* update(user_id, {'mode': mode})
SessionUpdate(u, mode) ==
  /\ LET g == SessionManagerGet(sessions, now, lastCleanup, u) IN
     /\ lastCleanup' = g.last
     /\ IF g.result = <<>>
        THEN /\ sessions' = g.sessions
             /\ sret' = [NoRet EXCEPT !.op = "update", !.user = u]
        ELSE LET x == [g.result[1] EXCEPT !.mode = mode, !.last_access = now]
             IN /\ sessions' = [g.sessions EXCEPT ![u] = <<x>>]
                /\ sret' = [NoRet EXCEPT !.op = "update", !.user = u,
                                         !.result = <<x>>]
  /\ UNCHANGED <<now, born, nonSessionVars>>

SessionDelete(u) ==
  /\ sessions' = [sessions EXCEPT ![u] = <<>>]
  /\ sret' = [NoRet EXCEPT !.op = "delete", !.user = u]
  /\ UNCHANGED <<now, lastCleanup, born, nonSessionVars>>

SessionClearAll ==
  /\ sessions' = [u \in SessionUsers |-> <<>>]
  /\ sret' = [NoRet EXCEPT !.op = "clear_all"]
  /\ UNCHANGED <<now, lastCleanup, born, nonSessionVars>>

SessionGetStats ==
  /\ LET c == CleanupExpired(sessions, now, lastCleanup) IN
     /\ sessions' = c.sessions
     /\ lastCleanup' = c.last
     /\ sret' = [NoRet EXCEPT !.op = "get_stats", !.stats = GetStats(c.sessions)]
  /\ UNCHANGED <<now, born, nonSessionVars>>

(***************************************************************************)
(* SimpleRateLimiter: is_allowed, one step per call, and the passing of    *)
(* time. max_requests and window are scaled down to a few units.           *)
(***************************************************************************)
MaxClock == 4

\* max_requests
MaxRequests == 2

\* window
Window == 2

ClientIps == {"10.0.0.1", "10.0.0.2"}

NoAnswer == [ip |-> "", allowed |-> FALSE]

\* the entries of one ip that are younger than the window
CleanEntries(entries, t) ==
  SelectSeq(entries, LAMBDA e : t - e.ts < Window)

\* sum(count for ts, count in entries)
RECURSIVE TotalCount(_)
TotalCount(entries) ==
  IF entries = <<>> THEN 0 ELSE entries[1].count + TotalCount(Tail(entries))

\* a limiter that lets the request through when the total equals the limit
LimiterIsAllowed_OnePastLimit(entries, t) ==
  LET kept == CleanEntries(entries, t) IN
  IF TotalCount(kept) > MaxRequests
  THEN [entries |-> kept, allowed |-> FALSE]
  ELSE [entries |-> Append(kept, [ts |-> t, count |-> 1]), allowed |-> TRUE]

\* is_allowed for the entries of one ip at time t: the entries afterwards and
\* the answer
LimiterIsAllowed(entries, t) ==
  LET kept == CleanEntries(entries, t) IN
  IF TotalCount(kept) >= MaxRequests
  THEN [entries |-> kept, allowed |-> FALSE]
  ELSE [entries |-> Append(kept, [ts |-> t, count |-> 1]), allowed |-> TRUE]

nonLimiterVars == <<registry, streamVars, creatorVars, sessionVars, retryVars,
                    uploadVars>>

LimiterTick ==
  /\ clock < MaxClock
  /\ clock' = clock + 1
  /\ lret' = NoAnswer
  /\ UNCHANGED <<requests, allowedLog, nonLimiterVars>>

IsAllowed(ip) ==
  /\ LET a == LimiterIsAllowed(requests[ip], clock) IN
     /\ requests' = [requests EXCEPT ![ip] = a.entries]
     /\ lret' = [ip |-> ip, allowed |-> a.allowed]
     /\ allowedLog' = IF a.allowed
                      THEN [allowedLog EXCEPT ![ip] = Append(@, clock)]
                      ELSE allowedLog
  /\ UNCHANGED <<clock, nonLimiterVars>>

(***************************************************************************)
(* retry_on_error: the wrapper around a function that may fail, one step   *)
(* per invocation of the function.                                         *)
(***************************************************************************)
MaxRetries == 4

\* the exceptions tuple, and an exception that is not in it
CaughtKinds == {"TimeoutError", "ConnectionError"}

OtherKind == "CancelledError"

NoOutcome == [kind |-> "none", what |-> "", attempt |-> 0]

\* caught holds the exceptions the wrapper caught so far, each with the
\* attempt that raised it
NoRetry ==
  [pc |-> "idle", max_retries |-> 0, attempt |-> 0, invoked |-> 0,
   caught |-> <<>>, out |-> NoOutcome]

nonRetryVars == <<registry, streamVars, creatorVars, sessionVars, limiterVars,
                  uploadVars>>

\* the wrapper is called; range(0) makes no attempt and raise None follows
RetryCall ==
  /\ retry.pc = "idle"
  /\ \E m \in 0..MaxRetries :
       retry' = IF m = 0
                THEN [NoRetry EXCEPT !.pc = "done",
                        !.out = [kind |-> "raise", what |-> "TypeError", attempt |-> 0]]
                ELSE [NoRetry EXCEPT !.pc = "attempt", !.max_retries = m]
  /\ UNCHANGED nonRetryVars

\* a loop that goes on while attempt <= max_retries - 1 + 1
RetryInvoke_OneMore ==
  /\ retry.pc = "attempt"
  /\ \/ retry' = [retry EXCEPT !.pc = "done", !.invoked = @ + 1,
                     !.out = [kind |-> "return", what |-> "result",
                              attempt |-> retry.attempt]]
     \/ \E k \in CaughtKinds :
          LET e == [kind |-> "raise", what |-> k, attempt |-> retry.attempt] IN
          retry' = IF retry.attempt < retry.max_retries
                   THEN [retry EXCEPT !.invoked = @ + 1, !.attempt = @ + 1,
                                      !.caught = Append(@, e)]
                   ELSE [retry EXCEPT !.pc = "done", !.invoked = @ + 1,
                                      !.caught = Append(@, e), !.out = e]
     \/ retry' = [retry EXCEPT !.pc = "done", !.invoked = @ + 1,
                     !.out = [kind |-> "raise", what |-> OtherKind,
                              attempt |-> retry.attempt]]
  /\ UNCHANGED nonRetryVars

\* one turn of the for loop: the function is invoked and returns, raises an
\* exception of the tuple, or raises another one
RetryInvoke ==
  /\ retry.pc = "attempt"
  /\ \/ retry' = [retry EXCEPT !.pc = "done", !.invoked = @ + 1,
                     !.out = [kind |-> "return", what |-> "result",
                              attempt |-> retry.attempt]]
     \/ \E k \in CaughtKinds :
          LET e == [kind |-> "raise", what |-> k, attempt |-> retry.attempt] IN
          retry' = IF retry.attempt < retry.max_retries - 1
                   THEN [retry EXCEPT !.invoked = @ + 1, !.attempt = @ + 1,
                                      !.caught = Append(@, e)]
                   ELSE [retry EXCEPT !.pc = "done", !.invoked = @ + 1,
                                      !.caught = Append(@, e), !.out = e]
     \/ retry' = [retry EXCEPT !.pc = "done", !.invoked = @ + 1,
                     !.out = [kind |-> "raise", what |-> OtherKind,
                              attempt |-> retry.attempt]]
  /\ UNCHANGED nonRetryVars

\* the caller has its result or its exception
RetryDone ==
  /\ retry.pc = "done"
  /\ retry' = NoRetry
  /\ UNCHANGED nonRetryVars

(***************************************************************************)
(* The bot's upload conversation: one step per update handled, a command,  *)
(* a video or a callback of an inline button.  A session is the dict the   *)
(* module keeps per user: its state, whether it holds search results, and  *)
(* in data the current show (by its type) and pending_uploads (by the file *)
(* ids, in order; a missing key and an empty list read the same            *)
(* everywhere).  data["current_season"] only supplies the season number of *)
(* a caption that names none, which the entries here do not carry.         *)
(***************************************************************************)
MaxPending == 2

\* settings.ADMIN_USER_IDS
BotUsers == {201, 202}

VideoIds == {"v1", "v2"}

ShowTypes == {"movie", "series"}

\* no entry for the user in user_sessions
NoSession ==
  [present |-> FALSE, state |-> "", results |-> FALSE, current_show |-> "none",
   pending_uploads |-> <<>>]

\* {"state": "idle", "data": {}}
IdleSession == [NoSession EXCEPT !.present = TRUE, !.state = "idle"]

NoUpdate == [user |-> 0, cmd |-> "none"]

nonUploadVars == <<registry, streamVars, creatorVars, sessionVars, limiterVars,
                   retryVars>>

is_waiting_video(u) == user_sessions[u].state = "waiting_video"

\* the handler of update cmd from user u leaves user u with session s
Handled(u, cmd, s) ==
  /\ user_sessions' = [user_sessions EXCEPT ![u] = s]
  /\ ulast' = [user |-> u, cmd |-> cmd]
  /\ UNCHANGED nonUploadVars

\* /start
start_command(u) == Handled(u, "start", IdleSession)

\* /cancel
cancel_command(u) == Handled(u, "cancel", IdleSession)

\* /create <query>: with results the session is replaced by a new dict whose
\* data is empty; a missing query, no result or a failing search change nothing
create_command(u) ==
  \E found \in BOOLEAN :
    Handled(u, "create",
            IF found
            THEN [IdleSession EXCEPT !.state = "selecting_show", !.results = TRUE]
            ELSE user_sessions[u])

\* /add
add_command(u) ==
  Handled(u, "add",
          IF user_sessions[u].current_show = "none"
          THEN user_sessions[u]
          ELSE [user_sessions[u] EXCEPT !.state = "waiting_video"])

\* /addf: replies with the season buttons
addf_command(u) == Handled(u, "addf", user_sessions[u])

\* show_show_details_with_actions: the show looked up becomes the current
\* show; an unknown show, or no session to write to, changes nothing
show_show_details_with_actions(u, cmd) ==
  \E show \in ShowTypes \cup {"none"} :
    Handled(u, cmd,
            IF show = "none" \/ ~user_sessions[u].present
            THEN user_sessions[u]
            ELSE [user_sessions[u] EXCEPT !.current_show = show])

\* /view [id]
view_command(u) == show_show_details_with_actions(u, "view")

\* /done: every pending entry is processed, then the list is emptied
done_command(u) ==
  Handled(u, "done",
          IF user_sessions[u].pending_uploads = <<>>
          THEN user_sessions[u]
          ELSE [user_sessions[u] EXCEPT !.pending_uploads = <<>>])

\* handle_movie_upload: the rows are created, then the entry is appended
handle_movie_upload(u, file_id) ==
  \E created \in BOOLEAN :
    Handled(u, "video",
            IF created
            THEN [user_sessions[u] EXCEPT !.pending_uploads = Append(@, file_id)]
            ELSE user_sessions[u])

\* handle_series_upload: without an episode number in the caption nothing
\* is added; otherwise the rows are created and the entry is appended
handle_series_upload(u, file_id) ==
  \E episode_num \in BOOLEAN, created \in BOOLEAN :
    Handled(u, "video",
            IF episode_num /\ created
            THEN [user_sessions[u] EXCEPT !.pending_uploads = Append(@, file_id)]
            ELSE user_sessions[u])

\* a video or a document arrives
handle_video_upload(u, file_id) ==
  /\ Len(user_sessions[u].pending_uploads) < MaxPending
  /\ IF ~is_waiting_video(u) \/ user_sessions[u].current_show = "none"
     THEN Handled(u, "video", user_sessions[u])
     ELSE IF user_sessions[u].current_show = "movie"
          THEN handle_movie_upload(u, file_id)
          ELSE handle_series_upload(u, file_id)

\* create_select_<idx>: the show is created and the session is replaced by
\* a new dict whose data holds the show only
process_show_selection(u) ==
  \E valid \in BOOLEAN, type \in ShowTypes :
    Handled(u, "create_select",
            IF user_sessions[u].results /\ valid
            THEN [IdleSession EXCEPT !.current_show = type]
            ELSE user_sessions[u])

\* create_cancel
callback_create_cancel(u) == Handled(u, "create_cancel", IdleSession)

\* season_create_<n>: the season is created for the current show
process_season_creation(u) == Handled(u, "season_create", user_sessions[u])

\* season_custom: the KeyError of a user without a session is caught
callback_season_custom(u) ==
  Handled(u, "season_custom",
          IF user_sessions[u].present
          THEN [user_sessions[u] EXCEPT !.state = "waiting_season_number"]
          ELSE user_sessions[u])

\* season_cancel
callback_season_cancel(u) == Handled(u, "season_cancel", user_sessions[u])

\* view_add_<id>
callback_view_add(u) ==
  \E show \in ShowTypes \cup {"none"} :
    Handled(u, "view_add",
            IF show = "none" \/ ~user_sessions[u].present
            THEN user_sessions[u]
            ELSE [user_sessions[u] EXCEPT !.current_show = show,
                                          !.state = "waiting_video"])

\* view_addf_<id>
callback_view_addf(u) ==
  \E show \in ShowTypes \cup {"none"} :
    Handled(u, "view_addf",
            IF show # "series" \/ ~user_sessions[u].present
            THEN user_sessions[u]
            ELSE [user_sessions[u] EXCEPT !.current_show = show])

\* view_refresh_<id>
callback_view_refresh(u) == show_show_details_with_actions(u, "view_refresh")

\* handle_callback: the branch the callback data selects
handle_callback(u) ==
  \/ process_show_selection(u)
  \/ callback_create_cancel(u)
  \/ process_season_creation(u)
  \/ callback_season_custom(u)
  \/ callback_season_cancel(u)
  \/ callback_view_add(u)
  \/ callback_view_addf(u)
  \/ callback_view_refresh(u)

(***************************************************************************)
(* Specifications.                                                         *)
(***************************************************************************)
CreatorsIdle ==
  /\ cpc = [p \in Creators |-> "idle"]
  /\ cfile = [p \in Creators |-> F1]
  /\ ctoken = [p \in Creators |-> <<>>]
  /\ cresult = [p \in Creators |-> <<>>]
  /\ resolved = NoResolved

\* SessionManager.__init__
SessionsIdle ==
  /\ sessions = [u \in SessionUsers |-> <<>>]
  /\ now = 0
  /\ lastCleanup = 0
  /\ born = [u \in SessionUsers |-> 0]
  /\ sret = NoRet

\* SimpleRateLimiter.__init__
LimiterIdle ==
  /\ requests = [ip \in ClientIps |-> <<>>]
  /\ clock = 0
  /\ lret = NoAnswer
  /\ allowedLog = [ip \in ClientIps |-> <<>>]

\* no wrapped call in progress
RetryIdle == retry = NoRetry

\* user_sessions = {} at import
UploadsIdle ==
  /\ user_sessions = [u \in BotUsers |-> NoSession]
  /\ ulast = NoUpdate

UtilIdle == SessionsIdle /\ LimiterIdle /\ RetryIdle /\ UploadsIdle

StreamIdle ==
  /\ botSet = FALSE
  /\ pc = "Idle"
  /\ req = NoReq /\ loc = NoLoc /\ plan = NoPlan /\ resp = NoResp
  /\ up = NoUp /\ calls = NoCalls

\* the HTTP side: one request after the other against some registry
Init ==
  /\ registry \in Registries
  /\ StreamIdle
  /\ CreatorsIdle
  /\ UtilIdle

Next ==
  \/ ReceiveRequest
  \/ NextRequest
  \/ DjangoValidate
  \/ DjangoLookup
  \/ DjangoGetFile
  \/ DjangoPlan
  \/ DjangoFetch
  \/ DjangoStreamChunk
  \/ UpstreamDrop
  \/ ClientDisconnect
  \/ SetBot
  \/ FastApiValidate
  \/ FastApiGetFileInfo
  \/ FastApiPlan
  \/ FastApiDownload
  \/ FastApiStreamTurn
  \/ FastApiHead

Spec == Init /\ [][Next]_vars

\* the bot side: concurrent callers of get_or_create on an empty table
InitRegistry ==
  /\ registry = <<>>
  /\ StreamIdle
  /\ CreatorsIdle
  /\ UtilIdle

NextRegistry ==
  \E p \in Creators :
    \/ CreatorStart(p)
    \/ CreateStreamMappingInsert(p)
    \/ CreateStreamMappingExisting(p)
    \/ CreatorReturn(p)

SpecRegistry == InitRegistry /\ [][NextRegistry]_vars

\* the table under direct calls of create_stream_mapping and get_stream_mapping
NextMapping ==
  \/ \E p \in Creators :
       \/ CreateStreamMappingCall(p)
       \/ CreateStreamMappingInsert(p)
       \/ CreateStreamMappingExisting(p)
       \/ CreatorReturn(p)
  \/ ResolveMapping

SpecMapping == InitRegistry /\ [][NextMapping]_vars

\* the bot's helpers, each on its own: nothing else is going on
InitUtil ==
  /\ registry = <<>>
  /\ StreamIdle
  /\ CreatorsIdle
  /\ UtilIdle

NextSessions ==
  \/ SessionTick
  \/ \E u \in SessionUsers, mode \in SessionModes : SessionSet(u, mode)
  \/ \E u \in SessionUsers : SessionGet(u)
  \/ \E u \in SessionUsers, mode \in SessionModes : SessionUpdate(u, mode)
  \/ \E u \in SessionUsers : SessionDelete(u)
  \/ SessionClearAll
  \/ SessionGetStats

SpecSessions == InitUtil /\ [][NextSessions]_vars

NextLimiter ==
  \/ LimiterTick
  \/ \E ip \in ClientIps : IsAllowed(ip)

SpecLimiter == InitUtil /\ [][NextLimiter]_vars

NextRetry ==
  \/ RetryCall
  \/ RetryInvoke
  \/ RetryDone

SpecRetry == InitUtil /\ [][NextRetry]_vars

NextUploads ==
  \E u \in BotUsers :
    \/ start_command(u)
    \/ cancel_command(u)
    \/ create_command(u)
    \/ add_command(u)
    \/ addf_command(u)
    \/ view_command(u)
    \/ done_command(u)
    \/ \E file_id \in VideoIds : handle_video_upload(u, file_id)
    \/ handle_callback(u)

SpecUploads == InitUtil /\ [][NextUploads]_vars

(***************************************************************************)
(* Vocabulary of the properties.                                           *)
(***************************************************************************)
\* the resolver answered and the Range header has been dealt with
PlanningDone ==
  /\ req.endpoint \in {"django", "fastapi"}
  /\ IF req.endpoint = "django" THEN loc.download_url # <<>> ELSE loc.file_id # <<>>
  /\ pc # "LocationResolved"

\* content_length is known when the resolver reported a size
KnownLength == loc.file_size > 0

\* a status chosen by the range planning, not by an upstream failure
PlannedStatus == resp.status # 0 /\ resp.status \notin {500, 502}

\* the status line and the headers of a response
HeadersOf(r) ==
  [status |-> r.status, content_type |-> r.content_type,
   content_length |-> r.content_length, content_range |-> r.content_range,
   accept_ranges |-> r.accept_ranges]

\* s is an initial part of t
IsPrefix(s, t) == Len(s) <= Len(t) /\ SubSeq(t, 1, Len(s)) = s

\* the header is exactly bytes=<start>-[<end>]
SingleRange(h) == RangeMatch(h).matched /\ RangeMatch(h).last = Len(h)

\* the header lists more than one range
MultiRange(h) ==
  /\ RangeMatch(h).matched
  /\ RangeMatch(h).last < Len(h)
  /\ h[RangeMatch(h).last + 1] = ","

HeaderStart(h) == PyInt(RangeMatch(h).g1)

\* the end the header asks for, clamped to the last byte of n bytes
ClampedEnd(h, n) ==
  IF RangeMatch(h).g2 = <<>> THEN n - 1
  ELSE IF PyInt(RangeMatch(h).g2) >= n THEN n - 1
  ELSE PyInt(RangeMatch(h).g2)

Satisfiable(h, n) == HeaderStart(h) < n /\ HeaderStart(h) <= ClampedEnd(h, n)

\* Content-Range: bytes */<total>
UnsatisfiedRange(total) == [start |-> -1, end |-> -1, total |-> total]

(***************************************************************************)
(* C1: once range planning has run with a known content_length, the status *)
(* is 206 exactly when a single Range was given and is satisfiable, 200    *)
(* exactly when no Range was given, 416 exactly when the range is          *)
(* unsatisfiable.                                                          *)
(***************************************************************************)
C1_StatusFollowsRange ==
  (/\ PlanningDone /\ KnownLength /\ PlannedStatus
   /\ (req.range = <<>> \/ SingleRange(req.range)))
  => /\ resp.status = 206
          <=> (req.range # <<>> /\ Satisfiable(req.range, loc.file_size))
     /\ resp.status = 200 <=> req.range = <<>>
     /\ resp.status = 416
          <=> (req.range # <<>> /\ ~Satisfiable(req.range, loc.file_size))

(***************************************************************************)
(* C2: a Range whose start is at or past content_length is answered with   *)
(* 416, Content-Range: bytes * / content_length and an empty body.         *)
(***************************************************************************)
C2_UnsatisfiableResponse ==
  (/\ PlanningDone /\ KnownLength /\ PlannedStatus
   /\ RangeMatch(req.range).matched
   /\ HeaderStart(req.range) >= loc.file_size)
  => /\ resp.status = 416
     /\ resp.content_range = <<UnsatisfiedRange(loc.file_size)>>
     /\ resp.body = <<>>
     /\ resp.error = ""

(***************************************************************************)
(* C3: for a Range with start < content_length the effective end is        *)
(* content_length - 1 when the header gives no end or one at or past       *)
(* content_length, and the header's end otherwise; the end in              *)
(* Content-Range never exceeds content_length - 1.                         *)
(***************************************************************************)
C3_EffectiveEnd ==
  (/\ PlanningDone /\ req.range # <<>>
   /\ RangeMatch(req.range).matched
   /\ HeaderStart(req.range) < loc.file_size)
  => /\ plan.ranged
     /\ plan.end = ClampedEnd(req.range, loc.file_size)
     /\ resp.content_range # <<>>
          => /\ resp.content_range[1].end = ClampedEnd(req.range, loc.file_size)
             /\ resp.content_range[1].end <= loc.file_size - 1

\* a 206 whose header end lay past the file and was clamped
C3_Witness ==
  /\ req.endpoint = "django" /\ pc = "Streaming" /\ resp.status = 206
  /\ RangeMatch(req.range).g2 # <<>>
  /\ PyInt(RangeMatch(req.range).g2) >= loc.file_size
  /\ resp.content_range[1].end = loc.file_size - 1

(***************************************************************************)
(* C4: a Range whose start lies after its clamped end is answered with     *)
(* 416, never with 206.                                                    *)
(***************************************************************************)
C4_StartAfterEnd ==
  (/\ PlanningDone /\ KnownLength /\ PlannedStatus
   /\ SingleRange(req.range)
   /\ HeaderStart(req.range) > ClampedEnd(req.range, loc.file_size))
  => resp.status = 416

(***************************************************************************)
(* C5: a multi-range header is served like a request without Range: 200    *)
(* with the full content.                                                  *)
(***************************************************************************)
C5_MultiRangeIsFull ==
  (PlanningDone /\ KnownLength /\ PlannedStatus /\ MultiRange(req.range))
  => /\ resp.status = 200
     /\ resp.content_range = <<>>
     /\ resp.content_length = <<loc.file_size>>

\* the full length of the content: the size the resolver reported, or the
\* length of the upstream file when it reported none
FullLength ==
  IF KnownLength THEN loc.file_size ELSE Len(TelegramFiles[loc.file_id])

(***************************************************************************)
(* C6: every 206 carries Accept-Ranges: bytes, Content-Length equal to     *)
(* end - start + 1 and Content-Range: bytes start-end/content_length;      *)
(* every 200 carries Accept-Ranges: bytes, Content-Length equal to the     *)
(* full content length and no Content-Range.                               *)
(***************************************************************************)
C6_ResponseHeaders ==
  /\ resp.status = 206
       => /\ resp.accept_ranges = "bytes"
          /\ resp.content_length = <<plan.end - plan.start + 1>>
          /\ resp.content_range =
               <<[start |-> plan.start, end |-> plan.end, total |-> loc.file_size]>>
  /\ (resp.status = 200 /\ req.method = "GET" /\ loc.file_id \in FileIds)
       => /\ resp.accept_ranges = "bytes"
          /\ resp.content_range = <<>>
          /\ resp.content_length = <<FullLength>>

(***************************************************************************)
(* C7: for a satisfiable range and an upstream answer the proxy accepts,   *)
(* the body delivered is exactly the file's bytes start..end, as many as   *)
(* Content-Length says; the upstream GET carries Range: bytes=start-end    *)
(* for a 206 and no Range for a 200.                                       *)
(***************************************************************************)
C7_ByteExact ==
  (/\ req.endpoint = "django" /\ req.method = "GET" /\ pc = "Completed" /\ KnownLength
   /\ plan.ranged => plan.start <= plan.end)
  => LET bytes == TelegramFiles[loc.file_id]
         s == IF plan.ranged THEN plan.start ELSE 0
         e == IF plan.ranged THEN plan.end ELSE Len(bytes) - 1
     IN /\ resp.body = SubSeq(bytes, s + 1, e + 1)
        /\ resp.content_length = <<Len(resp.body)>>
        /\ resp.status = 206 => up.sent_range = <<[start |-> s, end |-> e]>>
        /\ resp.status = 200 => up.sent_range = <<>>

(***************************************************************************)
(* C8: a GET whose token has no row in the registry is answered with 404   *)
(* and neither getFile nor the byte endpoint is called for it.             *)
(***************************************************************************)
C8_UnknownToken ==
  (/\ req.endpoint = "django"
   /\ RowsOf(registry, req.token) = {})
  => /\ calls.getFile = 0 /\ calls.fetch = 0
     /\ resp.status # 0 => resp.status = 404

\* C8 as amended: a GET whose token is well formed and has no row in the
\* registry is answered with 404 and makes no upstream call
C8_UnknownValidToken ==
  (/\ req.endpoint = "django"
   /\ validate_stream_token(req.token)
   /\ RowsOf(registry, req.token) = {})
  => /\ calls.getFile = 0 /\ calls.fetch = 0
     /\ resp.status # 0 => resp.status = 404

\* the lookup of a well formed token found no row and the request got its 404
C8_Witness ==
  /\ req.endpoint = "django" /\ pc = "Responded"
  /\ validate_stream_token(req.token)
  /\ RowsOf(registry, req.token) = {}
  /\ calls.lookup = 1 /\ resp.status = 404

\* the identifier has the wrong length or a character outside the alphabet
StructurallyInvalid ==
  IF req.endpoint = "django" THEN ~validate_stream_token(req.token)
  ELSE req.token = <<>> \/ ~AllIn(req.token, UrlSafeChars)

(***************************************************************************)
(* C9: a request whose token or identifier is structurally invalid is      *)
(* answered with 400 and makes neither a registry lookup nor an upstream   *)
(* call.                                                                   *)
(***************************************************************************)
C9_InvalidToken ==
  (req.endpoint \in {"django", "fastapi"} /\ StructurallyInvalid)
  => /\ calls = NoCalls
     /\ resp.status # 0 => resp.status = 400

C12_UpstreamFailureStatus ==
  (req.endpoint = "django" /\ resp.status # 0 /\ loc.answer \notin {"", "ok"})
    => /\ loc.answer \in {"http4xx", "not_ok"} => resp.status = 404
       /\ loc.answer \in {"http5xx", "timeout"} => resp.status \in {502, 503}
       /\ resp.status # 500

(***************************************************************************)
(* C13: a request whose getFile call failed with a 5xx answer or a timeout *)
(* has made that call exactly twice by the time it answers the client.     *)
(***************************************************************************)
C13_RetriedOnce ==
  (req.endpoint = "django" /\ resp.status # 0 /\ loc.answer \in {"http5xx", "timeout"})
    => calls.getFile = 2

(***************************************************************************)
(* C14: when a GET without a Range header gets its status and headers, the *)
(* status, Content-Length, Content-Type and Accept-Ranges are the ones the *)
(* HEAD handler gives for the same file id and the same bot at that        *)
(* moment.                                                                 *)
(***************************************************************************)
C14_HeadMatchesGet ==
  [][(/\ req.endpoint = "fastapi" /\ req.method = "GET" /\ req.range = <<>>
      /\ resp.status = 0 /\ resp'.status # 0)
     => LET head == HeadResponse(botSet, req.token) IN
        /\ resp'.status = head.status
        /\ resp'.content_length = head.content_length
        /\ resp'.content_type = head.content_type
        /\ resp'.accept_ranges = head.accept_ranges]_vars

(***************************************************************************)
(* C15: a HEAD request makes no GET on the download url and no             *)
(* download_media call, and no byte of a body is sent for it.              *)
(***************************************************************************)
C15_HeadNeverStreams ==
  req.method = "HEAD" => (calls.fetch = 0 /\ resp.body = <<>>)

(***************************************************************************)
(* C16: a body byte is only ever sent under a status 200 or 206 chosen     *)
(* before it; once a request has its status, no later step of the request  *)
(* (chunk, upstream drop, failed download, client disconnect) changes the  *)
(* status or a header, and the body sent so far only grows at its end.     *)
(***************************************************************************)
C16_HeadersFixed ==
  /\ [](resp.body # <<>> => resp.status \in {200, 206})
  /\ [][(resp.status = 0 /\ resp'.status # 0) => resp'.body = <<>>]_vars
  /\ [][(resp.status # 0 /\ pc' # "Idle")
          => /\ HeadersOf(resp') = HeadersOf(resp)
             /\ IsPrefix(resp.body, resp'.body)]_vars

\* the upstream connection broke after a part of a 206 body had been sent
C16_Witness ==
  /\ pc = "StreamAborted" /\ req.endpoint = "django"
  /\ resp.status = 206
  /\ resp.body # <<>> /\ Len(resp.body) < plan.length

(***************************************************************************)
(* C17: a GET on the token route reaches Streaming only from RangePlanned, *)
(* RangePlanned only from LocationResolved and LocationResolved only from  *)
(* TokenResolved; it ends once, either after streaming (completed, client  *)
(* gone, body cut short) or with one of the statuses 400, 404, 416, 502,   *)
(* 503; a request that ends before its first body byte carries an error    *)
(* status and an error message and no body.                                *)
(***************************************************************************)
C17_StateMachine ==
  /\ [][(req'.endpoint = "django" /\ req'.method = "GET" /\ pc' # pc)
          => /\ pc' = "Streaming" => pc = "RangePlanned"
             /\ pc' = "RangePlanned" => pc = "LocationResolved"
             /\ pc' = "LocationResolved" => pc = "TokenResolved"
             /\ pc' \in {"Completed", "ClientDisconnected", "StreamAborted"}
                  => pc = "Streaming"]_vars
  /\ [][(pc \in Terminal) => (pc' \in {pc, "Idle"})]_vars
  /\ []((req.endpoint = "django" /\ req.method = "GET" /\ pc = "Responded")
          => /\ resp.status \in {400, 404, 416, 502, 503}
             /\ resp.error # ""
             /\ resp.body = <<>>)

(***************************************************************************)
(* C18: a request that ended because its client went away has no open      *)
(* upstream connection left.                                               *)
(***************************************************************************)
C18_DisconnectClosesUpstream ==
  pc = "ClientDisconnected" => ~up.open

(***************************************************************************)
(* C19: the payload bytes the server holds for a request never exceed one  *)
(* chunk.                                                                  *)
(***************************************************************************)
C19_OneChunkInMemory ==
  Len(up.buf) <= ChunkSize

(***************************************************************************)
(* C20: when the resolver reported no size, a GET that got past the        *)
(* planning is never answered with 206 or 416 and never carries a          *)
(* Content-Range; unless the upstream fetch failed it is answered with 200 *)
(* and the whole body.                                                     *)
(***************************************************************************)
C20_UnknownLengthIsFull ==
  (/\ req.method = "GET" /\ PlanningDone /\ ~KnownLength /\ resp.status # 0)
  => /\ resp.status \notin {206, 416}
     /\ resp.content_range = <<>>
     /\ (PlannedStatus /\ resp.status # 400) => resp.status = 200
     /\ (pc = "Completed" /\ loc.file_id \in FileIds)
          => resp.body = TelegramFiles[loc.file_id]

(***************************************************************************)
(* C21: a request on the token route starts without a download url; the    *)
(* url it holds afterwards comes from the one getFile call it made itself, *)
(* and the GET for the bytes goes to that url.                             *)
(***************************************************************************)
C21_LocationPerRequest ==
  req.endpoint = "django"
    => /\ pc \in {"Received", "Validated", "TokenResolved"}
            => (loc.download_url = <<>> /\ calls.getFile = 0 /\ calls.fetch = 0)
       /\ loc.download_url # <<>>
            => (calls.getFile = 1 /\ loc.answer = "ok"
                /\ loc.download_url = loc.file_id)
       /\ calls.fetch > 0
            => (calls.fetch = 1 /\ calls.getFile = 1
                /\ up.url # <<>> /\ up.url = loc.download_url)

\* a request is being streamed: it made its own getFile call and fetched
\* from the url that call returned
C21_Witness ==
  /\ req.endpoint = "django" /\ pc = "Streaming"
  /\ calls.getFile = 1 /\ calls.fetch = 1
  /\ up.url = loc.download_url /\ up.url = F2

(***************************************************************************)
(* C22: a get_or_create call made with an empty file id gets no row back   *)
(* and the table never holds a row with an empty file_id.                  *)
(***************************************************************************)
C22_EmptyFileIdRejected ==
  /\ \A p \in Creators :
       (cfile[p] = <<>> /\ cpc[p] \in {"insert", "conflict", "done", "error"})
         => (cresult[p] = <<>> /\ cpc[p] # "done")
  /\ \A i \in 1..Len(registry) : registry[i].file_id # <<>>

(***************************************************************************)
(* C23: a 206 response carries a Content-Range with                        *)
(* 0 <= start <= end <= total - 1 and a Content-Length of at least 1.      *)
(***************************************************************************)
C23_PartialContentBounds ==
  resp.status = 206
    => /\ resp.content_range # <<>>
       /\ 0 <= resp.content_range[1].start
       /\ resp.content_range[1].start <= resp.content_range[1].end
       /\ resp.content_range[1].end <= resp.content_range[1].total - 1
       /\ resp.content_length # <<>>
       /\ resp.content_length[1] >= 1

(***************************************************************************)
(* C24: on the token route a request answered with 400 or 416 has sent no  *)
(* GET to the download url and has no upstream connection; a request that  *)
(* has sent the GET carried no Range header or one that passed the checks. *)
(***************************************************************************)
C24_FetchAfterValidation ==
  req.endpoint = "django"
    => /\ resp.status \in {400, 416}
            => (calls.fetch = 0 /\ ~up.open /\ up.url = <<>>)
       /\ calls.fetch > 0
            => (req.range = <<>>
                \/ RangePlan(req.range, loc.file_size).status = 206)

\* the file was located and the range then found unsatisfiable
C24_Witness ==
  /\ req.endpoint = "django" /\ pc = "Responded"
  /\ resp.status = 416
  /\ calls.getFile = 1 /\ loc.download_url # <<>>
  /\ calls.fetch = 0

(***************************************************************************)
(* C25: when stream_file has run to its end for 0 <= start <= end < file   *)
(* size, the chunks it yielded, put together, are the bytes of the file at *)
(* offsets start..end, end - start + 1 of them.                            *)
(***************************************************************************)
C25_StreamFileExact ==
  (/\ req.endpoint = "fastapi" /\ pc = "Completed"
   /\ loc.file_id \in FileIds
   /\ 0 <= plan.start /\ plan.start <= plan.end
   /\ plan.end < Len(TelegramFiles[loc.file_id]))
  => /\ resp.body = SubSeq(TelegramFiles[loc.file_id], plan.start + 1, plan.end + 1)
     /\ Len(resp.body) = plan.end - plan.start + 1

C27_StatsCountLive ==
  sret.op = "get_stats"
    => /\ sret.stats["total"] =
            Cardinality({u \in SessionUsers :
               SessionManagerGet(sessions, now, lastCleanup, u).result # <<>>})
       /\ sret.stats["total"] =
            sret.stats["adding_files"] + sret.stats["creating_subfolder"]
            + sret.stats["selecting_parent"] + sret.stats["other"]

(***************************************************************************)
(* C28: for every ip, the is_allowed calls answered True at times less     *)
(* than window apart number at most max_requests; a call answered False    *)
(* adds no entry for its ip; a call for one ip leaves the entries of every *)
(* other ip as they were.                                                  *)
(***************************************************************************)
C28_RateLimit ==
  /\ [](\A ip \in ClientIps :
          \A i, j \in 1..Len(allowedLog[ip]) :
            (i <= j /\ allowedLog[ip][j] - allowedLog[ip][i] < Window)
              => j - i + 1 <= MaxRequests)
  /\ [][clock' = clock
          => \A ip \in ClientIps :
               /\ lret'.ip # ip
                    => (requests'[ip] = requests[ip]
                        /\ allowedLog'[ip] = allowedLog[ip])
               /\ (lret'.ip = ip /\ ~lret'.allowed)
                    => (requests'[ip] = CleanEntries(requests[ip], clock)
                        /\ allowedLog'[ip] = allowedLog[ip])]_vars

\* an ip was refused at the limit and let through again once its oldest
\* entries had left the window, while the other ip was being served
C28_Witness ==
  \E ip \in ClientIps, other \in ClientIps :
    /\ ip # other
    /\ Len(allowedLog[ip]) > MaxRequests
    /\ lret = [ip |-> ip, allowed |-> FALSE]
    /\ allowedLog[other] # <<>>

(***************************************************************************)
(* C29: the wrapped function is never invoked more than max_retries times  *)
(* in a call; a call that returns returns what the first successful        *)
(* invocation returned, and that invocation was the last; a call that ends *)
(* with an exception of the tuple made max_retries invocations, all        *)
(* failed, and raises the exception of the last one; an exception outside  *)
(* the tuple ends the call at the invocation that raised it.               *)
(***************************************************************************)
C29_RetryOnError ==
  /\ retry.invoked <= retry.max_retries
  /\ retry.invoked = Len(retry.caught)
       + (IF retry.out.kind = "return" \/ retry.out.what = OtherKind THEN 1 ELSE 0)
  /\ retry.out.kind = "return"
       => retry.out.attempt = retry.invoked - 1
  /\ (retry.out.kind = "raise" /\ retry.out.what \in CaughtKinds)
       => /\ retry.invoked = retry.max_retries
          /\ Len(retry.caught) = retry.max_retries
          /\ retry.out = retry.caught[retry.max_retries]
  /\ (retry.out.kind = "raise" /\ retry.out.what = OtherKind)
       => retry.out.attempt = retry.invoked - 1
  /\ (retry.out.kind = "raise" /\ retry.out.what = "TypeError")
       => retry.max_retries = 0

\* the function failed twice with exceptions of the tuple and the call
\* returned the result of the third invocation, with one attempt to spare
C29_Witness ==
  /\ retry.pc = "done" /\ retry.out.kind = "return"
  /\ retry.max_retries = 4 /\ retry.invoked = 3
  /\ Len(retry.caught) = 2

(***************************************************************************)
(* C30: the pending_uploads of a user only grow at the end, except in a    *)
(* step where that same user sends /done, /cancel or /start; /done leaves  *)
(* the list empty; a step of one user leaves the list of every other user  *)
(* as it was.                                                              *)
(***************************************************************************)
PendingOf(u) == user_sessions[u].pending_uploads

C30_PendingKept ==
  [][\A u \in BotUsers :
       /\ \/ IsPrefix(PendingOf(u), PendingOf(u)')
          \/ ulast'.user = u /\ ulast'.cmd \in {"done", "cancel", "start"}
       /\ (ulast'.user = u /\ ulast'.cmd = "done") => PendingOf(u)' = <<>>
       /\ ulast'.user # u => PendingOf(u)' = PendingOf(u)]_vars

====
